---- MODULE Spec2Model ----
(***************************************************************************)
(* The Express example service of examples/nodejs/src/index.ts: the        *)
(* in-memory users collection and its route handlers, the login and token  *)
(* check, the rate limiter and the middleware pipeline in front of them.   *)
(***************************************************************************)
EXTENDS Integers, Sequences, FiniteSets, TLC

VARIABLES
    users,      \* let users: User[]                         (index.ts:118)
    credentials,\* const authUsers: the array, which a handler could write to
    server,     \* the http.Server and the process: listening, closing, exited
    srv,        \* the Go service: its http.Server and process (cmd/main.go:107)
    created,    \* history: the ids given out by POST /users, in order
    limiter,    \* RateLimiterMemory's storage: key -> record (index.ts:40)
    now,        \* the wall clock, in seconds
    issued,     \* history: the tokens returned by POST /auth/login, and when
    seen,       \* history: per key and instant, the requests admitted and rejected
    slots,      \* the requests in flight, each with its pipeline position
    last        \* the last exchange: the request and the response sent to it

\* The state of the Node service, and the whole state.
nodeVars == <<users, credentials, server, created, limiter, seen, now, issued, slots, last>>

vars == <<nodeVars, srv>>

(***************************************************************************)
(* Bounds of the exploration.                                              *)
(***************************************************************************)
MaxCreates == 2     \* creations by POST /users
MaxInflight == 2    \* requests in flight at once
MaxOver == 1        \* requests of a key beyond the limiter's points, per window
MaxTokens == 2      \* logins that succeed

\* The limiter's points: 100 in the source (index.ts:42).  The limiter treats
\* every count below its points alike, so the model takes a small number.
Points == 2

(***************************************************************************)
(* JavaScript numbers that are not integers of the model.                  *)
(***************************************************************************)
NegInfinity == -1000000
PosInfinity == 1000000
NaN == 999999

IsFinite(x) == x \notin {NegInfinity, PosInfinity, NaN}

\* a === b on numbers: NaN equals nothing, itself included.
StrictEq(a, b) == a # NaN /\ b # NaN /\ a = b

\* x + 1 on numbers: the infinities and NaN absorb the addition.
PlusOne(x) == IF IsFinite(x) THEN x + 1 ELSE x

\* Math.max(...xs): -Infinity for no arguments, NaN if any argument is NaN.
MathMax(S) ==
    IF S = {} THEN NegInfinity
    ELSE IF NaN \in S THEN NaN
    ELSE CHOOSE m \in S : \A x \in S : x <= m

(***************************************************************************)
(* JSON values of a request body: a field is undefined (absent), a string  *)
(* or a number.                                                            *)
(***************************************************************************)
Undef == [t |-> "undefined", s |-> "", n |-> 0]
Str(x) == [t |-> "string", s |-> x, n |-> 0]
Num(x) == [t |-> "number", s |-> "", n |-> x]

\* The strings the requests and the seed records carry, with their lengths
\* (String.prototype.length). LongName has 101 characters, MaxName 100.
LongName == "L...(101 characters)"
MaxName == "M...(100 characters)"
LongSecret == "P...(101 characters)"

StrLen(s) ==
    CASE s = "" -> 0
      [] s = "A" -> 1
      [] s = "ab" -> 2
      [] s = "Bob" -> 3
      [] s = "Carol" -> 5
      [] s = "admin" -> 5
      [] s = "guest" -> 5
      [] s = "12345" -> 5
      [] s = "admin123" -> 8
      [] s = "wrong-password" -> 14
      [] s = "not-an-email" -> 12
      [] s = "Bob Smith" -> 9
      [] s = "Alice Johnson" -> 13
      [] s = "bob@example.com" -> 15
      [] s = "alice@example.com" -> 17
      [] s = "carol@example.com" -> 17
      [] s = "dave@example.com" -> 16
      [] s = "<the password the stored hash was made from>" -> 44
      [] s = MaxName -> 100
      [] s = LongName -> 101
      [] s = LongSecret -> 101

\* z.string().email(): of the strings above, those that are addresses.
IsEmail(s) ==
    s \in {"alice@example.com", "bob@example.com", "carol@example.com",
           "dave@example.com"}

(***************************************************************************)
(* The :id path parameter and parseInt.  A parameter starts with a run of  *)
(* digits with an optional sign (parseInt gives the integer, whatever      *)
(* follows the digits), is text with no leading digits (NaN), or starts    *)
(* with a run of digits too long for a double, which parseInt rounds to an *)
(* infinity.                                                               *)
(***************************************************************************)
Digits(n) == [kind |-> "digits", val |-> n]
Text == [kind |-> "text", val |-> 0]
Overflow(sign) == [kind |-> "overflow", val |-> sign]

parseInt(p) ==
    CASE p.kind = "digits" -> p.val
      [] p.kind = "text" -> NaN
      [] p.kind = "overflow" -> IF p.val < 0 THEN NegInfinity ELSE PosInfinity

(***************************************************************************)
(* Zod schemas.  An issue is a field path and a code; parse gives the      *)
(* issues in the order of the schema's keys.                               *)
(***************************************************************************)
Issue(path, code) == [path |-> path, code |-> code]

\* z.string().min(lo).max(hi)
StringIssues(v, path, lo, hi) ==
    IF v.t # "string" THEN <<Issue(path, "invalid_type")>>
    ELSE IF StrLen(v.s) < lo THEN <<Issue(path, "too_small")>>
    ELSE IF StrLen(v.s) > hi THEN <<Issue(path, "too_big")>>
    ELSE <<>>

\* z.string().email()
EmailIssues(v, path) ==
    IF v.t # "string" THEN <<Issue(path, "invalid_type")>>
    ELSE IF ~IsEmail(v.s) THEN <<Issue(path, "invalid_string")>>
    ELSE <<>>

\* z.number().min(lo).max(hi).optional()
OptNumberIssues(v, path, lo, hi) ==
    IF v.t = "undefined" THEN <<>>
    ELSE IF v.t # "number" \/ v.n = NaN THEN <<Issue(path, "invalid_type")>>
    ELSE IF v.n < lo THEN <<Issue(path, "too_small")>>
    ELSE IF v.n > hi THEN <<Issue(path, "too_big")>>
    ELSE <<>>

\* UserCreateSchema: the issues of a body (<<>> when it parses).
UserCreateIssues(body) ==
    StringIssues(body.name, "name", 1, 100)
        \o EmailIssues(body.email, "email")
        \o OptNumberIssues(body.age, "age", 1, 150)

\* Mutant of UserCreateData: the schema passes unknown keys through, and the
\* body's id stays in the parsed data.
UserCreateData_Passthrough(body) ==
    [name |-> body.name.s, email |-> body.email.s, age |-> body.age,
     id |-> body.id]

\* UserCreateSchema.parse(body) when there are no issues: the schema's keys
\* only, an id or any other key of the body is stripped.
UserCreateData(body) ==
    [name |-> body.name.s, email |-> body.email.s, age |-> body.age]

\* { id, ...userData }: a key of the spread data replaces the one written
\* before it; the parsed data has no id key.
MkUser(id, data) ==
    [id |-> IF "id" \in DOMAIN data /\ data.id.t = "number" THEN data.id.n ELSE id,
     name |-> data.name, email |-> data.email, age |-> data.age]

(***************************************************************************)
(* Responses.                                                              *)
(***************************************************************************)
NoDetails == <<>>
NoData == <<>>

Resp(status, kind, error, details, data) ==
    [status |-> status, kind |-> kind, error |-> error,
     details |-> details, data |-> data]

ErrorResp(status, msg) == Resp(status, "error", msg, NoDetails, NoData)
ValidationFailed(issues) == Resp(400, "error", "Validation failed", issues, NoData)

(***************************************************************************)
(* The users collection and its handlers.  A handler is a synchronous      *)
(* function: it gives the collection it leaves and the response it sends.  *)
(***************************************************************************)
SeedUsers ==
    << [id |-> 1, name |-> "Alice Johnson", email |-> "alice@example.com",
        age |-> Num(30)],
       [id |-> 2, name |-> "Bob Smith", email |-> "bob@example.com",
        age |-> Num(25)] >>

Ids(us) == {us[k].id : k \in 1..Len(us)}

\* users.findIndex(u => u.id === id): 0 stands for -1 (not found).
FindIndex(us, id) ==
    IF \E k \in 1..Len(us) : StrictEq(us[k].id, id)
    THEN CHOOSE k \in 1..Len(us) :
            /\ StrictEq(us[k].id, id)
            /\ \A j \in 1..(k - 1) : ~StrictEq(us[j].id, id)
    ELSE 0

\* users.splice(k, 1)
Splice(us, k) == [j \in 1..(Len(us) - 1) |-> IF j < k THEN us[j] ELSE us[j + 1]]

Outcome(us, resp) == [users |-> us, resp |-> resp]

\* Math.max(...users.map(u => u.id)) + 1
NewId(us) == PlusOne(MathMax(Ids(us)))

\* Mutant of GetUsers: the records are sent newest first.
GetUsers_NewestFirst(us) ==
    Outcome(us, Resp(200, "users", "", NoDetails,
                     [k \in 1..Len(us) |-> us[Len(us) + 1 - k]]))

\* app.get('/users')
GetUsers(us) == Outcome(us, Resp(200, "users", "", NoDetails, us))

\* app.get('/users/:id')
GetUser(us, param) ==
    LET id == parseInt(param)
        k == FindIndex(us, id)
    IN  IF k = 0 THEN Outcome(us, ErrorResp(404, "User not found"))
        ELSE Outcome(us, Resp(200, "user", "", NoDetails, us[k]))

\* app.post('/users')
PostUsers(us, body) ==
    LET issues == UserCreateIssues(body)
        newUser == MkUser(NewId(us), UserCreateData(body))
    IN  IF issues # <<>> THEN Outcome(us, ValidationFailed(issues))
        ELSE Outcome(Append(us, newUser), Resp(201, "user", "", NoDetails, newUser))

\* Mutant of PutUser: the body is merged into the old record, which keeps
\* the fields the body leaves out.
PutUser_Merges(us, param, body) ==
    LET id == parseInt(param)
        issues == UserCreateIssues(body)
        k == FindIndex(us, id)
        data == UserCreateData(body)
        updatedUser == MkUser(id, [data EXCEPT !.age = IF @ = Undef THEN us[k].age ELSE @])
    IN  IF issues # <<>> THEN Outcome(us, ValidationFailed(issues))
        ELSE IF k = 0 THEN Outcome(us, ErrorResp(404, "User not found"))
        ELSE Outcome([us EXCEPT ![k] = updatedUser],
                     Resp(200, "user", "", NoDetails, updatedUser))

\* Mutant of PutUser: an id that is not in the collection is created.
PutUser_Upsert(us, param, body) ==
    LET id == parseInt(param)
        issues == UserCreateIssues(body)
        k == FindIndex(us, id)
        updatedUser == MkUser(id, UserCreateData(body))
    IN  IF issues # <<>> THEN Outcome(us, ValidationFailed(issues))
        ELSE IF k = 0
        THEN Outcome(Append(us, updatedUser),
                     Resp(200, "user", "", NoDetails, updatedUser))
        ELSE Outcome([us EXCEPT ![k] = updatedUser],
                     Resp(200, "user", "", NoDetails, updatedUser))

\* Mutant of PutUser: the record is looked up before the body is validated.
PutUser_LookupFirst(us, param, body) ==
    LET id == parseInt(param)
        issues == UserCreateIssues(body)
        k == FindIndex(us, id)
        updatedUser == MkUser(id, UserCreateData(body))
    IN  IF k = 0 THEN Outcome(us, ErrorResp(404, "User not found"))
        ELSE IF issues # <<>> THEN Outcome(us, ValidationFailed(issues))
        ELSE Outcome([us EXCEPT ![k] = updatedUser],
                     Resp(200, "user", "", NoDetails, updatedUser))

\* app.put('/users/:id')
PutUser(us, param, body) ==
    LET id == parseInt(param)
        issues == UserCreateIssues(body)
        k == FindIndex(us, id)
        updatedUser == MkUser(id, UserCreateData(body))
    IN  IF issues # <<>> THEN Outcome(us, ValidationFailed(issues))
        ELSE IF k = 0 THEN Outcome(us, ErrorResp(404, "User not found"))
        ELSE Outcome([us EXCEPT ![k] = updatedUser],
                     Resp(200, "user", "", NoDetails, updatedUser))

\* Mutant of DeleteUser: the index is not checked, and splice(-1, 1) takes the
\* last record out before the 404 is sent.
DeleteUser_SplicesNotFound(us, param) ==
    LET id == parseInt(param)
        k == FindIndex(us, id)
    IN  IF k = 0 THEN Outcome(Splice(us, Len(us)), ErrorResp(404, "User not found"))
        ELSE Outcome(Splice(us, k), Resp(204, "empty", "", NoDetails, NoData))

\* Mutant of DeleteUser: every record of the id is filtered out.
DeleteUser_FiltersAll(us, param) ==
    LET id == parseInt(param)
        k == FindIndex(us, id)
        Keeps(u) == ~StrictEq(u.id, id)
    IN  IF k = 0 THEN Outcome(us, ErrorResp(404, "User not found"))
        ELSE Outcome(SelectSeq(us, Keeps), Resp(204, "empty", "", NoDetails, NoData))

\* app.delete('/users/:id')
DeleteUser(us, param) ==
    LET id == parseInt(param)
        k == FindIndex(us, id)
    IN  IF k = 0 THEN Outcome(us, ErrorResp(404, "User not found"))
        ELSE Outcome(Splice(us, k), Resp(204, "empty", "", NoDetails, NoData))

(***************************************************************************)
(* Requests.  A body is the object express.json leaves in req.body: every  *)
(* field the schemas read is a JSON value, undefined when the key is       *)
(* absent.  raw says how the body parser fares on the bytes sent.          *)
(***************************************************************************)
NoBody ==
    [name |-> Undef, email |-> Undef, age |-> Undef, id |-> Undef,
     username |-> Undef, password |-> Undef]

UserBody(name, email, age, id) ==
    [NoBody EXCEPT !.name = name, !.email = email, !.age = age, !.id = id]

LoginBody(username, password) ==
    [NoBody EXCEPT !.username = username, !.password = password]

NoParam == Text

\* A token as jwt.sign makes it: the payload and the key that signed it.
Token(id, username, iat, exp, key) ==
    [id |-> id, username |-> username, iat |-> iat, exp |-> exp, key |-> key]

NotAJwt == Token(0, "", 0, 0, "not-a-jwt")

\* The Authorization header: absent, one word ("Bearer"), or two words, the
\* second being the token.
NoHeader == [words |-> 0, token |-> NotAJwt]
OneWord == [words |-> 1, token |-> NotAJwt]
Bearer(tok) == [words |-> 2, token |-> tok]

Req(method, route, param, raw, body, auth, ip) ==
    [method |-> method, route |-> route, param |-> param, raw |-> raw,
     body |-> body, auth |-> auth, ip |-> ip]

NoReq == Req("", "", NoParam, "none", NoBody, NoHeader, "")
NoResp == Resp(0, "none", "", NoDetails, NoData)

(***************************************************************************)
(* Login and the token check.                                              *)
(***************************************************************************)
JWT_SECRET == "your-secret-key"
ExpiresIn == 86400

StoredHash == "$2a$10$8K1p/a0dURXAU7aHSzU.9OA2w2O3BqASDNr6vW5Ag6dHklhGIh6Ve"

authUsers == << [id |-> 1, username |-> "admin", password |-> StoredHash] >>

\* Some password of 6..100 characters has the stored digest; the model names
\* it without knowing it.
HashPreimage == "<the password the stored hash was made from>"

\* bcrypt.compare(password, hash): the digest of the password under the
\* hash's salt equals the hash.  Computed outside the model for the strings
\* of the model: none of them, "admin123" included, has the stored digest.
BcryptCompare(password, hash) == hash = StoredHash /\ password = HashPreimage

\* AuthSchema
AuthIssues(body) ==
    StringIssues(body.username, "username", 3, 50)
        \o StringIssues(body.password, "password", 6, 100)

\* authUsers.find(u => u.username === username): 0 for undefined.
FindAuthUser(username) ==
    IF \E k \in 1..Len(credentials) : credentials[k].username = username
    THEN CHOOSE k \in 1..Len(credentials) :
            /\ credentials[k].username = username
            /\ \A j \in 1..(k - 1) : credentials[j].username # username
    ELSE 0

\* Mutant of JwtSign: the token lives one hour.
JwtSign_OneHour(user, t) == Token(user.id, user.username, t, t + 3600, JWT_SECRET)

\* jwt.sign({ id, username }, JWT_SECRET, { expiresIn: '24h' }) at time t.
JwtSign(user, t) == Token(user.id, user.username, t, t + ExpiresIn, JWT_SECRET)

\* Mutant of JwtVerifies: only a token that a login of this process returned
\* is accepted, as if the server kept the tokens it issues.
JwtVerifies_Stored(tok, t) ==
    /\ tok.key = JWT_SECRET
    /\ t < tok.exp
    /\ \E x \in issued : x.token = tok

\* Mutant of JwtVerifies: the signature is not checked.
JwtVerifies_AnyKey(tok, t) == t < tok.exp

\* jwt.verify(token, JWT_SECRET) at time t: no error.
JwtVerifies(tok, t) == tok.key = JWT_SECRET /\ t < tok.exp

\* The payload jwt.verify hands to the callback.
JwtPayload(tok) ==
    [id |-> tok.id, username |-> tok.username, iat |-> tok.iat, exp |-> tok.exp]

\* authHeader && authHeader.split(' ')[1]: the token, when there is one.
HasToken(auth) == auth.words = 2

\* authenticateToken followed by the /protected handler.
Protected(auth, t) ==
    IF ~HasToken(auth) THEN ErrorResp(401, "Access token required")
    ELSE IF ~JwtVerifies(auth.token, t) THEN ErrorResp(403, "Invalid token")
    ELSE Resp(200, "message", "", NoDetails,
              [message |-> auth.token.username, user |-> JwtPayload(auth.token)])

\* Mutant of LoginStart: the user is looked up before the body is parsed
\* with the schema.
LoginStart_LookupFirst(body) ==
    LET issues == AuthIssues(body)
    IN  IF body.username.t = "string" /\ FindAuthUser(body.username.s) = 0
        THEN ErrorResp(401, "Invalid credentials")
        ELSE IF issues # <<>> THEN ValidationFailed(issues)
        ELSE NoResp

\* POST /auth/login up to the await of bcrypt.compare: the response sent
\* without comparing, or NoResp when the comparison is started.
LoginStart(body) ==
    LET issues == AuthIssues(body)
    IN  IF issues # <<>> THEN ValidationFailed(issues)
        ELSE IF FindAuthUser(body.username.s) = 0
             THEN ErrorResp(401, "Invalid credentials")
        ELSE NoResp

\* Mutant of LoginFinish: the result of the comparison is ignored.
LoginFinish_IgnoresCompare(body, t) ==
    LET user == credentials[FindAuthUser(body.username.s)]
    IN  Resp(200, "login", "", NoDetails,
             [token |-> JwtSign(user, t),
              user |-> [id |-> user.id, username |-> user.username]])

\* POST /auth/login after the await, at time t.
LoginFinish(body, t) ==
    LET user == credentials[FindAuthUser(body.username.s)]
    IN  IF ~BcryptCompare(body.password.s, user.password)
        THEN ErrorResp(401, "Invalid credentials")
        ELSE Resp(200, "login", "", NoDetails,
                  [token |-> JwtSign(user, t),
                   user |-> [id |-> user.id, username |-> user.username]])

(***************************************************************************)
(* The rate limiter: RateLimiterMemory({ points, duration }), a counter    *)
(* per key over a fixed window that opens at the key's first request.      *)
(***************************************************************************)
Duration == 60

\* The client addresses (req.ip) of the model.
Keys == {"10.0.0.1", "10.0.0.2"}

\* The instants the clock of the model takes: around the limiter's window
\* and around the expiry of a token signed in the first window.
Instants ==
    {0, Duration \div 2, Duration - 1, Duration, Duration + Duration \div 2,
     ExpiresIn - 1, ExpiresIn, ExpiresIn + Duration \div 2, ExpiresIn + Duration}

NoRecord == [present |-> FALSE, value |-> 0, expiresAt |-> 0]

\* Mutant of Live: a record never expires.
Live_NeverExpires(rec, t) == rec.present

\* The record of a key is live at time t: it has not expired.
Live(rec, t) == rec.present /\ rec.expiresAt - t > 0

\* Mutant of Incrby: one counter for all the addresses.
Incrby_SharedCounter(lim, key, t) ==
    [k \in DOMAIN lim |->
        IF Live(lim[k], t) THEN [lim[k] EXCEPT !.value = @ + 1]
        ELSE [present |-> TRUE, value |-> 1, expiresAt |-> t + Duration]]

\* The storage after rateLimiter.consume(key) at time t: the live record
\* incremented, or a new record of value 1 that expires after Duration.
Incrby(lim, key, t) ==
    IF Live(lim[key], t)
    THEN [lim EXCEPT ![key].value = @ + 1]
    ELSE [lim EXCEPT ![key] =
            [present |-> TRUE, value |-> 1, expiresAt |-> t + Duration]]

\* RateLimiterRes.remainingPoints of a key at time t: the points its window
\* has left, never below zero.
RemainingPoints(rec, t) ==
    IF ~Live(rec, t) THEN Points
    ELSE IF Points - rec.value > 0 THEN Points - rec.value
    ELSE 0

\* Mutant of Resolves: one request too many is let through.
Resolves_OffByOne(rec) == ~(rec.value > Points + 1)

\* consume resolves (TRUE) or rejects (FALSE): it rejects when the points
\* consumed in the window exceed the limiter's points.
Resolves(rec) == ~(rec.value > Points)

(***************************************************************************)
(* Route dispatch of every route but POST /auth/login: the collection      *)
(* left and the response sent, by method and route, at time t.             *)
(***************************************************************************)
RouteNotFound == ErrorResp(404, "Route not found")

\* Mutant of Route: authenticateToken is also registered on the routes that
\* change the collection.
Route_GatesWrites(req, us, t) ==
    CASE req.method = "GET" /\ req.route = "/" ->
            Outcome(us, Resp(200, "welcome", "", NoDetails, NoData))
      [] req.method = "GET" /\ req.route = "/health" ->
            Outcome(us, Resp(200, "health", "", NoDetails, NoData))
      [] req.method = "GET" /\ req.route = "/users" -> GetUsers(us)
      [] req.method = "POST" /\ req.route = "/users" ->
            IF Protected(req.auth, t).status # 200
            THEN Outcome(us, Protected(req.auth, t))
            ELSE PostUsers(us, req.body)
      [] req.method = "GET" /\ req.route = "/users/:id" -> GetUser(us, req.param)
      [] req.method = "PUT" /\ req.route = "/users/:id" ->
            IF Protected(req.auth, t).status # 200
            THEN Outcome(us, Protected(req.auth, t))
            ELSE PutUser(us, req.param, req.body)
      [] req.method = "DELETE" /\ req.route = "/users/:id" ->
            IF Protected(req.auth, t).status # 200
            THEN Outcome(us, Protected(req.auth, t))
            ELSE DeleteUser(us, req.param)
      [] req.method = "GET" /\ req.route = "/protected" ->
            Outcome(us, Protected(req.auth, t))
      [] OTHER -> Outcome(us, RouteNotFound)

\* The routes as the app registers them.
Route(req, us, t) ==
    CASE req.method = "GET" /\ req.route = "/" ->
            Outcome(us, Resp(200, "welcome", "", NoDetails, NoData))
      [] req.method = "GET" /\ req.route = "/health" ->
            Outcome(us, Resp(200, "health", "", NoDetails, NoData))
      [] req.method = "GET" /\ req.route = "/users" -> GetUsers(us)
      [] req.method = "POST" /\ req.route = "/users" -> PostUsers(us, req.body)
      [] req.method = "GET" /\ req.route = "/users/:id" -> GetUser(us, req.param)
      [] req.method = "PUT" /\ req.route = "/users/:id" ->
            PutUser(us, req.param, req.body)
      [] req.method = "DELETE" /\ req.route = "/users/:id" ->
            DeleteUser(us, req.param)
      [] req.method = "GET" /\ req.route = "/protected" ->
            Outcome(us, Protected(req.auth, t))
      [] OTHER -> Outcome(us, RouteNotFound)

IsLogin(req) == req.method = "POST" /\ req.route = "/auth/login"
IsCreate(req) == req.method = "POST" /\ req.route = "/users"

\* The history of creations after a response.
Created(hist, req, resp) ==
    IF IsCreate(req) /\ resp.status = 201 THEN Append(hist, resp.data.id) ELSE hist

(***************************************************************************)
(* The pipeline.  A request in flight holds a slot from its arrival to its *)
(* response; between two awaits its code runs as one step.                 *)
(***************************************************************************)
Slots == 1..MaxInflight

NoneSeen == [admitted |-> 0, rejected |-> 0]

\* since is history: the number of creations made when a POST /users arrived.
Idle ==
    [stage |-> "idle", req |-> NoReq, admitted |-> FALSE, ran |-> <<>>, since |-> 0]

\* The Go service as main starts it: the goroutine that will listen has not
\* run yet.  inflight counts the requests being served; after the signal,
\* elapsed counts the seconds since Shutdown was called, polled says whether
\* Shutdown has looked at the connections in the current second, and
\* idleSince is history: the second in which the last request finished (-1
\* while one is outstanding).  code and log are the exit code and the last
\* line logged once the process has exited.
GoStarting ==
    [phase |-> "starting", sig |-> "", inflight |-> 0, elapsed |-> 0,
     polled |-> FALSE, idleSince |-> -1, code |-> -1, log |-> ""]

\* The server listens, with no connection that is kept alive; code is the
\* exit code once the process has exited.
Listening == [phase |-> "listening", code |-> -1, keep |-> {}]

\* A request with the response written for it and the middleware and
\* handlers that ran; sent counts the calls of res.json or res.send made for
\* the request.  Every path of the code that answers a request makes one
\* call: each branch that sends returns, or is the last statement.
Exchange(req, resp, ran) == [req |-> req, resp |-> resp, ran |-> ran, sent |-> 1]

Init ==
    /\ srv = GoStarting
    /\ users = SeedUsers
    /\ credentials = authUsers
    /\ server = Listening
    /\ created = <<>>
    /\ limiter = [k \in Keys |-> NoRecord]
    /\ seen = [k \in Keys |-> [t \in Instants |-> NoneSeen]]
    /\ now = 0
    /\ issued = {}
    /\ slots = [i \in Slots |-> Idle]
    /\ last = [Exchange(NoReq, NoResp, <<>>) EXCEPT !.sent = 0]

\* The points a key has consumed in its live window, with the requests of
\* the key that have yet to reach the limiter.
Pending(key) ==
    (IF Live(limiter[key], now) THEN limiter[key].value ELSE 0)
        + Cardinality({i \in Slots :
                        slots[i].stage = "body" /\ slots[i].req.ip = key})

\* The creations made, with those in flight.
Creating ==
    Len(created)
        + Cardinality({i \in Slots :
                        slots[i].stage # "idle" /\ IsCreate(slots[i].req)})

\* A request arrives: helmet, cors, compression and morgan run, and the
\* body parser starts to read the body.
Arrive(i, req) ==
    /\ slots[i].stage = "idle"
    /\ server.phase = "listening" \/ i \in server.keep
    /\ Pending(req.ip) < Points + MaxOver
    /\ IsCreate(req) => Creating < MaxCreates
    /\ IsLogin(req) => Cardinality(issued) < MaxTokens
    /\ slots' = [slots EXCEPT ![i] =
                    [stage |-> "body", req |-> req, admitted |-> FALSE,
                     ran |-> <<"helmet", "cors", "compression", "morgan">>,
                     since |-> IF IsCreate(req) THEN Len(created) ELSE 0]]
    /\ UNCHANGED <<srv, credentials, server, users, created, limiter, seen, now, issued, last>>

\* Mutant of BodyRejected: rateLimitMiddleware is registered before the body
\* parser, so the request consumes a point, and is answered 429 when the
\* limiter rejects it.
BodyRejected_AfterLimiter(i) ==
    LET key == slots[i].req.ip
        lim == Incrby(limiter, key, now)
    IN  /\ slots[i].stage = "body"
        /\ slots[i].req.raw \in {"malformed", "oversize"}
        /\ limiter' = lim
        /\ last' = IF Resolves(lim[key])
                   THEN Exchange(slots[i].req, ErrorResp(500, "Internal server error"),
                                 slots[i].ran \o <<"rateLimit", "json", "errorHandler">>)
                   ELSE Exchange(slots[i].req, ErrorResp(429, "Rate limit exceeded"),
                                 slots[i].ran \o <<"rateLimit">>)
        /\ slots' = [slots EXCEPT ![i] = Idle]
        /\ UNCHANGED <<srv, credentials, server, users, created, seen, now, issued>>

\* express.json fails on the body (malformed, or over the limit): the error
\* goes to the error-handling middleware, which answers 500.
BodyRejected(i) ==
    /\ slots[i].stage = "body"
    /\ slots[i].req.raw \in {"malformed", "oversize"}
    /\ last' = Exchange(slots[i].req, ErrorResp(500, "Internal server error"),
                        slots[i].ran \o <<"json", "errorHandler">>)
    /\ slots' = [slots EXCEPT ![i] = Idle]
    /\ UNCHANGED <<srv, credentials, server, users, created, limiter, seen, now, issued>>

\* express.json and express.urlencoded pass, and rateLimitMiddleware calls
\* rateLimiter.consume(req.ip), which it awaits.
BodyParsed(i) ==
    LET key == slots[i].req.ip
        lim == Incrby(limiter, key, now)
        ok == Resolves(lim[key])
    IN  /\ slots[i].stage = "body"
        /\ slots[i].req.raw \notin {"malformed", "oversize"}
        /\ limiter' = lim
        /\ seen' = IF ok THEN [seen EXCEPT ![key][now].admitted = @ + 1]
                   ELSE [seen EXCEPT ![key][now].rejected = @ + 1]
        /\ slots' = [slots EXCEPT ![i] =
                        [@ EXCEPT !.stage = "rate", !.admitted = ok,
                                  !.ran = @ \o <<"json", "urlencoded", "rateLimit">>]]
        /\ UNCHANGED <<srv, credentials, server, users, created, now, issued, last>>

\* Mutant of RateLimited: next() is called after the 429 is sent, and the
\* router goes on to the catch-all.
RateLimited_CallsNext(i) ==
    /\ slots[i].stage = "rate"
    /\ ~slots[i].admitted
    /\ last' = Exchange(slots[i].req, ErrorResp(429, "Rate limit exceeded"),
                        slots[i].ran \o <<"notFound">>)
    /\ slots' = [slots EXCEPT ![i] = Idle]
    /\ UNCHANGED <<srv, credentials, server, users, created, limiter, seen, now, issued>>

\* consume rejected: 429, and next() is not called.
RateLimited(i) ==
    /\ slots[i].stage = "rate"
    /\ ~slots[i].admitted
    /\ last' = Exchange(slots[i].req, ErrorResp(429, "Rate limit exceeded"),
                        slots[i].ran)
    /\ slots' = [slots EXCEPT ![i] = Idle]
    /\ UNCHANGED <<srv, credentials, server, users, created, limiter, seen, now, issued>>

\* consume resolved, next(): the router runs the route's handler.
Dispatch(i) ==
    LET req == slots[i].req
        out == Route(req, users, now)
        stages == IF req.route = "/protected" /\ req.method = "GET"
                  THEN IF out.resp.status = 200
                       THEN <<"authenticateToken", "handler">>
                       ELSE <<"authenticateToken">>
                  ELSE IF out.resp = RouteNotFound THEN <<"notFound">>
                  ELSE <<"handler">>
    IN  /\ slots[i].stage = "rate"
        /\ slots[i].admitted
        /\ ~IsLogin(req)
        /\ users' = out.users
        /\ created' = Created(created, req, out.resp)
        /\ last' = Exchange(req, out.resp, slots[i].ran \o stages)
        /\ slots' = [slots EXCEPT ![i] = Idle]
        /\ UNCHANGED <<srv, credentials, server, limiter, seen, now, issued>>

\* Mutant of LoginDispatch: the 400 of the catch block is sent without
\* return, and the 500 after it is sent as well.
LoginDispatch_SendsTwice(i) ==
    LET req == slots[i].req
        resp == LoginStart(req.body)
    IN  /\ slots[i].stage = "rate"
        /\ slots[i].admitted
        /\ IsLogin(req)
        /\ IF resp = NoResp
           THEN /\ slots' = [slots EXCEPT ![i] =
                                [@ EXCEPT !.stage = "compare",
                                          !.ran = @ \o <<"handler">>]]
                /\ last' = last
           ELSE /\ slots' = [slots EXCEPT ![i] = Idle]
                /\ last' = [Exchange(req, resp, slots[i].ran \o <<"handler">>)
                                EXCEPT !.sent = IF resp.status = 400 THEN 2 ELSE 1]
        /\ UNCHANGED <<srv, credentials, server, users, created, limiter, seen, now, issued>>

\* POST /auth/login up to the await of bcrypt.compare.
LoginDispatch(i) ==
    LET req == slots[i].req
        resp == LoginStart(req.body)
    IN  /\ slots[i].stage = "rate"
        /\ slots[i].admitted
        /\ IsLogin(req)
        /\ IF resp = NoResp
           THEN /\ slots' = [slots EXCEPT ![i] =
                                [@ EXCEPT !.stage = "compare",
                                          !.ran = @ \o <<"handler">>]]
                /\ last' = last
           ELSE /\ slots' = [slots EXCEPT ![i] = Idle]
                /\ last' = Exchange(req, resp, slots[i].ran \o <<"handler">>)
        /\ UNCHANGED <<srv, credentials, server, users, created, limiter, seen, now, issued>>

\* bcrypt.compare has answered: 401, or the token is signed and sent.
LoginDone(i) ==
    LET req == slots[i].req
        resp == LoginFinish(req.body, now)
    IN  /\ slots[i].stage = "compare"
        /\ last' = Exchange(req, resp, slots[i].ran)
        /\ issued' = IF resp.status = 200
                     THEN issued \cup {[token |-> resp.data.token, at |-> now]}
                     ELSE issued
        /\ slots' = [slots EXCEPT ![i] = Idle]
        /\ UNCHANGED <<srv, credentials, server, users, created, limiter, seen, now>>

\* Time passes, to a later instant among T.
Tick(T) ==
    /\ \E t \in T : t > now /\ now' = t
    /\ UNCHANGED <<srv, credentials, server, users, created, limiter, seen, issued, slots, last>>

\* A request that the limiter admits reaches route dispatch, its steps up
\* to there left out.  The limiter keeps a counter per address, so requests
\* from addresses it has not seen are admitted whatever came before.
Admitted(i, req) ==
    /\ slots[i].stage = "idle"
    /\ server.phase = "listening" \/ i \in server.keep
    /\ IsCreate(req) => Creating < MaxCreates
    /\ IsLogin(req) => Cardinality(issued) < MaxTokens
    /\ slots' = [slots EXCEPT ![i] =
                    [stage |-> "rate", req |-> req, admitted |-> TRUE,
                     ran |-> <<"helmet", "cors", "compression", "morgan",
                               "json", "urlencoded", "rateLimit">>,
                     since |-> IF IsCreate(req) THEN Len(created) ELSE 0]]
    /\ UNCHANGED <<srv, credentials, server, users, created, limiter, seen, now, issued, last>>

\* A client opens a connection that it keeps alive between its requests; the
\* listening server accepts it.
Connect(i) ==
    /\ server.phase = "listening"
    /\ slots[i].stage = "idle"
    /\ i \notin server.keep
    /\ server' = [server EXCEPT !.keep = @ \cup {i}]
    /\ UNCHANGED <<srv, credentials, users, created, limiter, seen, now, issued, slots, last>>

\* A connection with no request in flight ends: the client closes it, or the
\* server does when its keep-alive timeout passes.
Disconnect(i) ==
    /\ server.phase # "exited"
    /\ i \in server.keep
    /\ slots[i].stage = "idle"
    /\ server' = [server EXCEPT !.keep = @ \ {i}]
    /\ UNCHANGED <<srv, credentials, users, created, limiter, seen, now, issued, slots, last>>

\* SIGTERM: server.close(callback) stops listening.  The connections with a
\* request in flight are kept; those with none are kept too, or closed at
\* once, by the version of the runtime.
Sigterm ==
    /\ server.phase = "listening"
    /\ \E closed \in {{}, {i \in server.keep : slots[i].stage = "idle"}} :
            server' = [server EXCEPT !.phase = "closing", !.keep = @ \ closed]
    /\ UNCHANGED <<srv, credentials, users, created, limiter, seen, now, issued, slots, last>>

\* The last connection has ended: the server emits 'close', and the callback
\* calls process.exit(0).
Exit ==
    /\ server.phase = "closing"
    /\ server.keep = {}
    /\ \A i \in Slots : slots[i].stage = "idle"
    /\ server' = [server EXCEPT !.phase = "exited", !.code = 0]
    /\ UNCHANGED <<srv, credentials, users, created, limiter, seen, now, issued, slots, last>>

(***************************************************************************)
(* The Go service's main: listen, wait for a signal, shut down.            *)
(***************************************************************************)
\* context.WithTimeout(context.Background(), 5*time.Second), in seconds.
ShutdownTimeout == 5

GoExit(code, log) == [srv EXCEPT !.phase = "exited", !.code = code, !.log = log]

\* srv.ListenAndServe() in its goroutine: the server listens.
GoListen ==
    /\ srv.phase = "starting"
    /\ srv' = [srv EXCEPT !.phase = "serving"]
    /\ UNCHANGED nodeVars

\* srv.ListenAndServe() returns an error other than ErrServerClosed.
GoListenFails ==
    /\ srv.phase = "starting"
    /\ srv' = GoExit(1, "Failed to start server")
    /\ UNCHANGED nodeVars

\* The listening server takes a request.
GoAccept ==
    /\ srv.phase = "serving"
    /\ srv.inflight < MaxInflight
    /\ srv' = [srv EXCEPT !.inflight = @ + 1]
    /\ UNCHANGED nodeVars

\* A handler returns and its response is written.
GoFinish ==
    /\ srv.phase \in {"serving", "shutdown"}
    /\ srv.inflight > 0
    /\ srv' = [srv EXCEPT !.inflight = @ - 1,
                          !.idleSince = IF srv.phase = "shutdown" /\ srv.inflight = 1
                                        THEN srv.elapsed ELSE @]
    /\ UNCHANGED nodeVars

\* <-quit: SIGINT or SIGTERM; main calls srv.Shutdown(ctx), which closes the
\* listener.
GoSignal(sig) ==
    /\ srv.phase \in {"starting", "serving"}
    /\ srv' = [srv EXCEPT !.phase = "shutdown", !.sig = sig, !.elapsed = 0,
                          !.polled = FALSE,
                          !.idleSince = IF srv.inflight = 0 THEN 0 ELSE -1]
    /\ UNCHANGED nodeVars

\* Mutant of GoPoll: Shutdown returns nil without looking at the requests.
GoPoll_IgnoresInflight ==
    /\ srv.phase = "shutdown"
    /\ ~srv.polled
    /\ srv' = GoExit(0, "Server exited")
    /\ UNCHANGED nodeVars

\* Shutdown looks at the connections: with no request outstanding it returns
\* nil, main logs "Server exited" and returns; otherwise it waits for its
\* poll timer or for the context.
GoPoll ==
    /\ srv.phase = "shutdown"
    /\ ~srv.polled
    /\ srv' = IF srv.inflight = 0 THEN GoExit(0, "Server exited")
              ELSE [srv EXCEPT !.polled = TRUE]
    /\ UNCHANGED nodeVars

\* A second passes in Shutdown; the poll timer (at most 500 ms) has fired in
\* it.
GoTick ==
    /\ srv.phase = "shutdown"
    /\ srv.polled
    /\ srv.elapsed < ShutdownTimeout
    /\ srv' = [srv EXCEPT !.elapsed = @ + 1, !.polled = FALSE]
    /\ UNCHANGED nodeVars

\* ctx.Done(): Shutdown returns the context's error, and logger.Fatal logs
\* and calls os.Exit(1).
GoDeadline ==
    /\ srv.phase = "shutdown"
    /\ srv.elapsed = ShutdownTimeout
    /\ srv' = GoExit(1, "Server forced to shutdown")
    /\ UNCHANGED nodeVars

\* A request that the limiter admits, served with no other request in
\* between, its steps before route dispatch left out: the handler alone.
Handle(req) ==
    LET out == Route(req, users, now)
    IN  /\ ~IsLogin(req)
        /\ server.phase = "listening"
        /\ IsCreate(req) => Len(created) < MaxCreates
        /\ users' = out.users
        /\ created' = Created(created, req, out.resp)
        /\ last' = Exchange(req, out.resp, <<"handler">>)
        /\ UNCHANGED <<srv, credentials, server, limiter, seen, now, issued, slots>>

(***************************************************************************)
(* The requests of the model.                                              *)
(***************************************************************************)
Client == "10.0.0.1"

Carol == UserBody(Str("Carol"), Str("carol@example.com"), Undef, Undef)
Bob == UserBody(Str("Bob"), Str("carol@example.com"), Num(30), Num(99))

ValidUserBodies == {Carol, Bob}

InvalidUserBodies ==
    { NoBody,
      UserBody(Undef, Str("carol@example.com"), Undef, Undef),
      UserBody(Str("Carol"), Undef, Undef, Undef),
      UserBody(Str(""), Str("carol@example.com"), Undef, Undef),
      UserBody(Str(LongName), Str("carol@example.com"), Undef, Undef),
      UserBody(Num(5), Str("carol@example.com"), Undef, Undef),
      UserBody(Str("Carol"), Str("not-an-email"), Undef, Undef),
      UserBody(Str("Carol"), Str("carol@example.com"), Num(0), Undef),
      UserBody(Str("Carol"), Str("carol@example.com"), Num(151), Undef),
      UserBody(Str("Carol"), Str("carol@example.com"), Str("12345"), Undef) }

IdParams ==
    {Digits(n) : n \in 0..(2 + MaxCreates)} \cup {Text, Overflow(-1), Overflow(1)}

PutParams == {Digits(2), Digits(3), Text, Overflow(-1)}

PutInvalidBodies ==
    { NoBody,
      UserBody(Str(LongName), Str("dave@example.com"), Undef, Undef),
      UserBody(Str("Carol"), Str("carol@example.com"), Num(151), Num(1)) }

Json(body) == IF body = NoBody THEN "none" ELSE "json"

UserRequests ==
    {Req("GET", "/users", NoParam, "none", NoBody, NoHeader, Client)}
    \cup {Req(m, "/users/:id", p, "none", NoBody, NoHeader, Client) :
            m \in {"GET", "DELETE"}, p \in IdParams}
    \cup {Req("POST", "/users", NoParam, Json(b), b, NoHeader, Client) :
            b \in ValidUserBodies \cup InvalidUserBodies}
    \cup {Req("PUT", "/users/:id", p, Json(b), b, NoHeader, Client) :
            p \in PutParams, b \in ValidUserBodies \cup PutInvalidBodies}

(***************************************************************************)
(* Specifications.                                                         *)
(***************************************************************************)
\* The users routes: any sequence of requests to them, one at a time.
NextUsers == \E req \in UserRequests : Handle(req)

SpecUsers == Init /\ [][NextUsers]_vars

\* The limiter: requests of one address that read the collection, change it
\* or ask for the protected route, in flight together, over time.
RateRequests ==
    { Req("POST", "/users", NoParam, "json", Carol, NoHeader, Client),
      Req("GET", "/protected", NoParam, "none", NoBody, NoHeader, Client) }

\* The instants within two windows of the start.
EarlyInstants == {t \in Instants : t <= 2 * Duration}

NextRate ==
    \/ \E i \in Slots, req \in RateRequests : Arrive(i, req)
    \/ \E i \in Slots : BodyParsed(i)
    \/ \E i \in Slots : RateLimited(i)
    \/ \E i \in Slots : Dispatch(i)
    \/ Tick(EarlyInstants)

SpecRate == Init /\ [][NextRate]_vars

\* Login and the protected route: requests that the limiter admits, in
\* flight together, over time; a request to the protected route carries no header, a header
\* of one word, something that is no token, a token signed with another
\* key, or a token that a login returned.
Admin(password) ==
    Req("POST", "/auth/login", NoParam, "json",
        LoginBody(Str("admin"), Str(password)), NoHeader, Client)

LoginRequests ==
    { Admin(HashPreimage), Admin("admin123"), Admin("12345"),
      Req("POST", "/auth/login", NoParam, "json",
          LoginBody(Str("guest"), Str(HashPreimage)), NoHeader, Client),
      Req("POST", "/auth/login", NoParam, "json",
          LoginBody(Str("ab"), Str(HashPreimage)), NoHeader, Client),
      Req("POST", "/auth/login", NoParam, "none", NoBody, NoHeader, Client) }

ForgedToken == Token(1, "admin", 0, 2 * ExpiresIn, "another-key")

\* A token signed with the server's secret before this process started, one
\* window before the clock of the model starts.
PriorToken == JwtSign(authUsers[1], 0 - Duration)

GetProtected(auth) ==
    Req("GET", "/protected", NoParam, "none", NoBody, auth, Client)

ProtectedRequests ==
    {GetProtected(a) : a \in {NoHeader, OneWord, Bearer(NotAJwt),
                              Bearer(ForgedToken), Bearer(PriorToken)}}
    \cup {GetProtected(Bearer(x.token)) : x \in issued}

\* The instants of the first half window and those around a token's expiry.
TokenInstants == {t \in Instants : t <= Duration \div 2 \/ t >= ExpiresIn - 1}

NextAuth ==
    \/ \E i \in Slots, req \in LoginRequests \cup ProtectedRequests :
            Admitted(i, req)
    \/ \E i \in Slots : Dispatch(i)
    \/ \E i \in Slots : LoginDispatch(i)
    \/ \E i \in Slots : LoginDone(i)
    \/ Tick(TokenInstants)

SpecAuth == Init /\ [][NextAuth]_vars

\* The whole pipeline: requests of one address to every kind of route, some
\* with a body the parser fails on, in flight together, over time.
Requests ==
    { Req("POST", "/users", NoParam, "json", Carol, NoHeader, Client),
      Req("POST", "/users", NoParam, "malformed", NoBody, NoHeader, Client),
      Req("PUT", "/users/:id", Digits(2), "oversize", NoBody, NoHeader, Client),
      Req("POST", "/users", NoParam, "json", NoBody, NoHeader, Client),
      Req("DELETE", "/users/:id", Digits(3), "none", NoBody, NoHeader, Client),
      Req("GET", "/missing", NoParam, "none", NoBody, NoHeader, Client),
      Admin(HashPreimage),
      GetProtected(NoHeader),
      GetProtected(Bearer(ForgedToken)) }
    \cup {GetProtected(Bearer(x.token)) : x \in issued}

Next ==
    \/ \E i \in Slots, req \in Requests : Arrive(i, req)
    \/ \E i \in Slots : BodyRejected(i)
    \/ \E i \in Slots : BodyParsed(i)
    \/ \E i \in Slots : RateLimited(i)
    \/ \E i \in Slots : Dispatch(i)
    \/ \E i \in Slots : LoginDispatch(i)
    \/ \E i \in Slots : LoginDone(i)
    \/ Tick({Duration})

Spec == Init /\ [][Next]_vars

\* The pipeline with the event loop running: one request for each way a
\* request is answered (a route handler, the error handler, the 404
\* handler, the token check, login before and after its comparison, and the
\* limiter once the points are used up).  The body parser finishes with
\* every body, and the awaited rateLimiter.consume and bcrypt.compare
\* complete.
ServeRequests ==
    { Req("GET", "/users", NoParam, "none", NoBody, NoHeader, Client),
      Req("POST", "/users", NoParam, "malformed", NoBody, NoHeader, Client),
      Req("GET", "/missing", NoParam, "none", NoBody, NoHeader, Client),
      Req("POST", "/auth/login", NoParam, "none", NoBody, NoHeader, Client),
      Admin(HashPreimage),
      GetProtected(NoHeader),
      GetProtected(Bearer(ForgedToken)) }
    \cup {GetProtected(Bearer(x.token)) : x \in issued}

NextServe ==
    \/ \E i \in Slots, req \in ServeRequests : Arrive(i, req)
    \/ \E i \in Slots : BodyRejected(i)
    \/ \E i \in Slots : BodyParsed(i)
    \/ \E i \in Slots : RateLimited(i)
    \/ \E i \in Slots : Dispatch(i)
    \/ \E i \in Slots : LoginDispatch(i)
    \/ \E i \in Slots : LoginDone(i)

SpecServe ==
    /\ Init
    /\ [][NextServe]_vars
    /\ \A i \in Slots :
            /\ WF_vars(BodyRejected(i))
            /\ WF_vars(BodyParsed(i))
            /\ WF_vars(RateLimited(i))
            /\ WF_vars(Dispatch(i))
            /\ WF_vars(LoginDispatch(i))
            /\ WF_vars(LoginDone(i))

\* The limiter with two addresses: requests that read the collection, from
\* either address, in flight together, over the first window and the start
\* of the second.
Other == "10.0.0.2"

KeyRequests ==
    {Req("GET", "/users", NoParam, "none", NoBody, NoHeader, ip) : ip \in Keys}

KeyInstants == {Duration - 1, Duration}

NextKeys ==
    \/ \E i \in Slots, req \in KeyRequests : Arrive(i, req)
    \/ \E i \in Slots : BodyParsed(i)
    \/ \E i \in Slots : RateLimited(i)
    \/ \E i \in Slots : Dispatch(i)
    \/ Tick(KeyInstants)

SpecKeys == Init /\ [][NextKeys]_vars

\* The users routes under concurrency: requests that the limiter admits, in
\* flight together; each waits at the limiter's await, and its handler then
\* runs in one turn of the event loop.
ConcurrentRequests ==
    { Req("GET", "/users", NoParam, "none", NoBody, NoHeader, Client),
      Req("POST", "/users", NoParam, "json", Carol, NoHeader, Client),
      Req("POST", "/users", NoParam, "json", Bob, NoHeader, Client),
      Req("PUT", "/users/:id", Digits(2), "json", Carol, NoHeader, Client) }
    \cup {Req("DELETE", "/users/:id", Digits(n), "none", NoBody, NoHeader, Client) :
            n \in 1..3}

NextConcurrent ==
    \/ \E i \in Slots, req \in ConcurrentRequests : Admitted(i, req)
    \/ \E i \in Slots : Dispatch(i)

SpecConcurrent == Init /\ [][NextConcurrent]_vars

\* Shutdown: requests that the limiter admits, on connections of their own
\* or on connections kept alive, a SIGTERM at any moment.  The event loop
\* runs every callback that is ready, the keep-alive timer closes a
\* connection left without a request, and the process exits once the server
\* has closed; nothing makes a client stop sending.
ShutdownRequests ==
    { Req("GET", "/users", NoParam, "none", NoBody, NoHeader, Client),
      Req("POST", "/users", NoParam, "json", Carol, NoHeader, Client),
      Admin(HashPreimage) }

NextShutdown ==
    \/ \E i \in Slots : Connect(i)
    \/ \E i \in Slots, req \in ShutdownRequests : Admitted(i, req)
    \/ \E i \in Slots : Dispatch(i)
    \/ \E i \in Slots : LoginDispatch(i)
    \/ \E i \in Slots : LoginDone(i)
    \/ \E i \in Slots : Disconnect(i)
    \/ Sigterm
    \/ Exit

SpecShutdown ==
    /\ Init
    /\ [][NextShutdown]_vars
    /\ \A i \in Slots :
            /\ WF_vars(Dispatch(i))
            /\ WF_vars(LoginDispatch(i))
            /\ WF_vars(LoginDone(i))
            /\ WF_vars(Disconnect(i))
    /\ WF_vars(Exit)

\* The Go service from start to exit.  The main goroutine and the clock go
\* on; nothing makes a handler return.
NextGo ==
    \/ GoListen
    \/ GoListenFails
    \/ GoAccept
    \/ GoFinish
    \/ \E sig \in {"SIGINT", "SIGTERM"} : GoSignal(sig)
    \/ GoPoll
    \/ GoTick
    \/ GoDeadline

SpecGo ==
    /\ Init
    /\ [][NextGo]_vars
    /\ WF_vars(GoPoll)
    /\ WF_vars(GoTick)
    /\ WF_vars(GoDeadline)

\* The gate: requests that change the collection, sent with no token, with
\* a forged one or with a token a login gave, among logins and requests for
\* the protected route; the limiter admits them all.
GateHeaders == {NoHeader, Bearer(ForgedToken)} \cup {Bearer(x.token) : x \in issued}

GateRequests ==
    {Req("POST", "/users", NoParam, "json", Carol, a, Client) : a \in GateHeaders}
    \cup {Req("PUT", "/users/:id", Digits(2), "json", Bob, a, Client) : a \in GateHeaders}
    \cup {Req("DELETE", "/users/:id", Digits(3), "none", NoBody, a, Client) :
            a \in GateHeaders}
    \cup {Admin(HashPreimage), GetProtected(NoHeader)}

NextGate ==
    \/ \E i \in Slots, req \in GateRequests : Admitted(i, req)
    \/ \E i \in Slots : Dispatch(i)
    \/ \E i \in Slots : LoginDispatch(i)
    \/ \E i \in Slots : LoginDone(i)

SpecGate == Init /\ [][NextGate]_vars

\* Validation and lookup: updates with bodies that pass or fail the schema,
\* on ids that are or are not in the collection, and logins whose bodies
\* pass or fail the schema, with names that are or are not in the
\* credential set; the limiter admits them all.
ValidateRequests ==
    {Req("PUT", "/users/:id", p, Json(b), b, NoHeader, Client) :
        p \in {Digits(2), Digits(3)}, b \in {Carol} \cup PutInvalidBodies}
    \cup { Req("POST", "/users", NoParam, "json", Carol, NoHeader, Client),
           Req("DELETE", "/users/:id", Digits(2), "none", NoBody, NoHeader, Client) }
    \cup LoginRequests

NextValidate ==
    \/ \E i \in Slots, req \in ValidateRequests : Admitted(i, req)
    \/ \E i \in Slots : Dispatch(i)
    \/ \E i \in Slots : LoginDispatch(i)
    \/ \E i \in Slots : LoginDone(i)

SpecValidate == Init /\ [][NextValidate]_vars

(***************************************************************************)
(* Properties of the users routes (SpecUsers: every step is one request    *)
(* handled, and last' is that request with its response).                  *)
(***************************************************************************)
IsUpdate(req) == req.method = "PUT" /\ req.route = "/users/:id"
IsDelete(req) == req.method = "DELETE" /\ req.route = "/users/:id"

\* Some record of the collection has the id.
HasId(us, id) == \E k \in 1..Len(us) : StrictEq(us[k].id, id)

\* C1: in every reachable state no two records of the users collection have
\* the same id.
C1_UniqueIds ==
    \A j, k \in 1..Len(users) : j # k => users[j].id # users[k].id

\* C2: the id given by each successful POST /users is greater than the seed
\* ids 1 and 2 and than every id given by an earlier creation, whether or not
\* those records are still in the collection.
C2_IdsNeverReused ==
    \A j \in 1..Len(created) :
        /\ \A k \in 1..Len(SeedUsers) : created[j] > SeedUsers[k].id
        /\ \A i \in 1..(j - 1) : created[j] > created[i]

\* C8: DELETE /users/:id on an id that is not in the collection answers 404
\* and leaves the collection as it was; on an id that is in the collection
\* it answers 204, and a GET /users/:id for that id that follows answers 404.
C8_DeleteThenGet ==
    [][ LET r == last'.req
            id == parseInt(r.param)
        IN  IsDelete(r) =>
                IF HasId(users, id)
                THEN /\ last'.resp.status = 204
                     /\ GetUser(users', r.param).resp.status = 404
                ELSE /\ last'.resp.status = 404
                     /\ users' = users ]_vars

\* The violations of the schema that C10 lists, read off the body.
SchemaViolated(body) ==
    \/ body.name.t = "undefined"
    \/ body.email.t = "undefined"
    \/ body.name.t = "string" /\ StrLen(body.name.s) \notin 1..100
    \/ body.email.t = "string" /\ ~IsEmail(body.email.s)
    \/ body.age.t = "number" /\ body.age.n \notin 1..150

\* C10: a POST /users or PUT /users/:id whose payload violates the schema is
\* answered 400 with a non-empty list of violations, each naming a field of
\* the schema, and the collection after the request equals the one before.
C10_InvalidPayloadRejected ==
    [][ LET r == last'.req
            d == last'.resp.details
        IN  ((IsCreate(r) \/ IsUpdate(r)) /\ SchemaViolated(r.body)) =>
                /\ last'.resp.status = 400
                /\ d # <<>>
                /\ \A n \in 1..Len(d) : d[n].path \in {"name", "email", "age"}
                /\ users' = users ]_vars

\* A PUT with a payload that violates the schema has been answered 400, after
\* the collection has changed from its seed.
C10_Witness ==
    /\ IsUpdate(last.req)
    /\ SchemaViolated(last.req.body)
    /\ last.resp.status = 400
    /\ users # SeedUsers

\* The body has every field the schema requires, within the schema's bounds.
SchemaValid(body) ==
    /\ body.name.t = "string" /\ StrLen(body.name.s) \in 1..100
    /\ body.email.t = "string" /\ IsEmail(body.email.s)
    /\ body.age.t = "undefined" \/ (body.age.t = "number" /\ body.age.n \in 1..150)

\* C15: PUT /users/:id with a schema-valid body answers 200 with the updated
\* record when the id is in the collection, the record in the collection
\* replaced by it and every other record left as it was; when the id is not
\* in the collection it answers 404 and leaves the collection unchanged.
C15_PutUpdatesOrNotFound ==
    [][ LET r == last'.req
            id == parseInt(r.param)
            rec == [id |-> id, name |-> r.body.name.s, email |-> r.body.email.s,
                    age |-> r.body.age]
        IN  (IsUpdate(r) /\ SchemaValid(r.body)) =>
                IF HasId(users, id)
                THEN /\ last'.resp.status = 200
                     /\ last'.resp.data = rec
                     /\ Len(users') = Len(users)
                     /\ \E k \in 1..Len(users) :
                            /\ users[k].id = id
                            /\ users'[k] = rec
                            /\ \A j \in 1..Len(users) : j # k => users'[j] = users[j]
                ELSE /\ last'.resp.status = 404
                     /\ last'.resp.kind = "error"
                     /\ users' = users ]_vars

\* A PUT whose body names another id has replaced a created record, which
\* keeps the id of the path.
C15_Witness ==
    /\ IsUpdate(last.req)
    /\ last.resp.status = 200
    /\ last.req.body.id # Undef
    /\ last.resp.data.id = 3
    /\ \E k \in 1..Len(users) : users[k] = last.resp.data

\* C16: in every reachable state no two records of the users collection have
\* the same email.
C16_UniqueEmails ==
    \A j, k \in 1..Len(users) : j # k => users[j].email # users[k].email

IsList(req) == req.method = "GET" /\ req.route = "/users"
IsFetch(req) == req.method = "GET" /\ req.route = "/users/:id"

\* A step keeps the records in the order of their creation: a created record
\* goes last, an update keeps every record in its place, and a deletion
\* takes one record out from among the others.
KeepsCreationOrder ==
    \/ users' = users
    \/ /\ Len(users') = Len(users) + 1
       /\ \A k \in 1..Len(users) : users'[k] = users[k]
       /\ created' = Append(created, users'[Len(users')].id)
    \/ /\ Len(users') = Len(users)
       /\ \A k \in 1..Len(users) : users'[k].id = users[k].id
    \/ \E k \in 1..Len(users) : users' = Splice(users, k)

\* C21: GET /users answers 200 with exactly the records of the collection in
\* creation order, which every step keeps (seed records first, then created
\* records in the order of their POSTs); GET /users/:id answers 200 with the
\* record when a record with that id is in the collection and 404 otherwise;
\* neither changes the collection.
C21_ReadsReturnCollection ==
    [][ LET r == last'.req
            id == parseInt(r.param)
        IN  /\ KeepsCreationOrder
            /\ IsList(r) =>
                    /\ last'.resp.status = 200
                    /\ last'.resp.data = users
                    /\ users' = users
            /\ IsFetch(r) =>
                    /\ users' = users
                    /\ IF HasId(users, id)
                       THEN /\ last'.resp.status = 200
                            /\ last'.resp.data.id = id
                            /\ \E k \in 1..Len(users) : users[k] = last'.resp.data
                       ELSE last'.resp.status = 404 /\ last'.resp.kind = "error"
      ]_vars

\* GET /users has been answered with a seed record and then two created
\* records, after the first seed record was deleted.
C21_Witness ==
    /\ IsList(last.req)
    /\ last.resp.status = 200
    /\ Len(last.resp.data) = 3
    /\ last.resp.data[1] = SeedUsers[2]
    /\ last.resp.data[2].name = "Carol"
    /\ last.resp.data[3].name = "Bob"
    /\ Len(created) = 2

\* The ids of the records, in the order of the collection.
IdsInOrder(us) == [k \in 1..Len(us) |-> us[k].id]

\* C23: a client never chooses a record's id: the record a POST /users
\* stores has the id the server computes from the collection, and the record
\* a PUT /users/:id stores has the id of the path, whatever id the request
\* body names; no other request changes the ids of the collection but by
\* taking one out.
C23_ClientNeverChoosesId ==
    [][ LET r == last'.req
        IN  /\ (IsCreate(r) /\ last'.resp.status = 201) =>
                    /\ IdsInOrder(users') = Append(IdsInOrder(users), NewId(users))
                    /\ last'.resp.data.id = NewId(users)
            /\ (IsUpdate(r) /\ last'.resp.status = 200) =>
                    /\ IdsInOrder(users') = IdsInOrder(users)
                    /\ last'.resp.data.id = parseInt(r.param)
                    /\ \E k \in 1..Len(users) :
                            users'[k] = last'.resp.data /\ users[k].id = parseInt(r.param)
            /\ ~(IsCreate(r) /\ last'.resp.status = 201) =>
                    Ids(users') \subseteq Ids(users)
      ]_vars

\* A POST whose body names the id 99 has stored its record under the id 3,
\* after a PUT with the same body replaced the record of id 2.
C23_Witness ==
    /\ IsCreate(last.req)
    /\ last.req.body.id = Num(99)
    /\ last.resp.status = 201
    /\ last.resp.data.id = 3
    /\ \E k \in 1..Len(users) : users[k].id = 2 /\ users[k].name = "Bob"
    /\ \A k \in 1..Len(users) : users[k].id # 99

\* C24: in every reachable state every record of the users collection
\* satisfies the record schema: its id is a finite integer, its name has 1 to
\* 100 characters, its email is a well-formed address, and its age is absent
\* or within 1..150.
C24_RecordsSatisfySchema ==
    \A k \in 1..Len(users) :
        /\ users[k].id \in Int /\ IsFinite(users[k].id)
        /\ StrLen(users[k].name) \in 1..100
        /\ IsEmail(users[k].email)
        /\ \/ users[k].age = Undef
           \/ users[k].age.t = "number" /\ users[k].age.n \in 1..150

\* C25: a PUT /users/:id that succeeds replaces the whole record of that id
\* and nothing else: the record keeps its id and its place, its name, email
\* and age are those of the body (no age when the body has none, whatever
\* the old record had), and the collection keeps its length and every other
\* record.
C25_PutReplacesWholeRecord ==
    [][ LET r == last'.req
            k == FindIndex(users, parseInt(r.param))
        IN  (IsUpdate(r) /\ last'.resp.status = 200) =>
                /\ k \in 1..Len(users)
                /\ Len(users') = Len(users)
                /\ users'[k].id = users[k].id
                /\ users'[k].name = r.body.name.s
                /\ users'[k].email = r.body.email.s
                /\ users'[k].age = r.body.age
                /\ r.body.age.t = "undefined" => users'[k].age = Undef
                /\ DOMAIN users'[k] = {"id", "name", "email", "age"}
                /\ \A j \in 1..Len(users) : j # k => users'[j] = users[j]
      ]_vars

\* A PUT with no age has replaced the second seed record, which had an age:
\* the record is still second, under the id 2, and has no age.
C25_Witness ==
    /\ IsUpdate(last.req)
    /\ last.resp.status = 200
    /\ last.req.body.age = Undef
    /\ created = <<>>
    /\ Len(users) = 2
    /\ users[1] = SeedUsers[1]
    /\ users[2] = [id |-> 2, name |-> "Carol", email |-> "carol@example.com",
                   age |-> Undef]

\* C26: a DELETE /users/:id that succeeds removes exactly one record, one
\* with that id: the collection is one record shorter, and the other records
\* remain as they were and in the same order.
C26_DeleteRemovesOne ==
    [][ LET r == last'.req
            id == parseInt(r.param)
        IN  (IsDelete(r) /\ last'.resp.status = 204) =>
                /\ Len(users') = Len(users) - 1
                /\ \E k \in 1..Len(users) :
                        /\ StrictEq(users[k].id, id)
                        /\ \A j \in 1..(k - 1) : users'[j] = users[j]
                        /\ \A j \in k..Len(users') : users'[j] = users[j + 1]
      ]_vars

\* The second seed record has been deleted from between the first and a
\* created one, which remain in that order.
C26_Witness ==
    /\ IsDelete(last.req)
    /\ last.resp.status = 204
    /\ parseInt(last.req.param) = 2
    /\ Len(users) = 2
    /\ users[1] = SeedUsers[1]
    /\ users[2].id = 3

(***************************************************************************)
(* Properties of the limiter (SpecRate).                                   *)
(***************************************************************************)
RECURSIVE SumOver(_, _)
SumOver(f, S) ==
    IF S = {} THEN 0
    ELSE LET x == CHOOSE y \in S : TRUE
         IN  f[x] + SumOver(f, S \ {x})

\* The requests of a key the limiter admitted at the instants in S, and all
\* those it saw there.
AdmittedAt(key, S) ==
    SumOver([t \in Instants |-> seen[key][t].admitted], S)

SeenAt(key, S) ==
    SumOver([t \in Instants |-> seen[key][t].admitted + seen[key][t].rejected], S)

\* The key's window is open and as many requests as the limiter has points
\* were admitted in it.
WindowFull(key) ==
    LET rec == limiter[key]
        window == {t \in Instants :
                    rec.expiresAt - Duration <= t /\ t < rec.expiresAt}
    IN  Live(rec, now) /\ AdmittedAt(key, window) >= Points

\* The request that slot i handles in a step that moves the slot.
Moved(i) == IF slots[i].stage = "idle" THEN slots'[i].req ELSE slots[i].req

\* Slot i's request reaches the limiter in this step.
Consumes(i) == slots[i].stage = "body" /\ slots'[i].stage = "rate"

\* C3: once as many requests of a key as the limiter has points were admitted
\* within one window, every further request of the key in that window is
\* rejected, and a rejected request is answered 429 without reaching the
\* token check or a route handler and without changing the collection,
\* whatever other requests are in flight.
C3_FullWindowRejects ==
    [][ \A i \in Slots :
            /\ (Consumes(i) /\ WindowFull(slots[i].req.ip)) => ~slots'[i].admitted
            /\ (slots[i].stage = "rate" /\ ~slots[i].admitted
                    /\ slots'[i] # slots[i]) =>
                    /\ last'.req = slots[i].req
                    /\ last'.resp.status = 429
                    /\ users' = users
                    /\ created' = created
                    /\ \A n \in 1..Len(last'.ran) :
                            last'.ran[n] \notin
                                {"authenticateToken", "handler", "notFound"} ]_vars

\* A POST /users has been answered 429 in a window in which the limiter's
\* points were all used by admitted requests.
C3_Witness ==
    /\ IsCreate(last.req)
    /\ last.resp.status = 429
    /\ WindowFull(last.req.ip)

\* No request of the key in the Duration seconds before instant g.
IdleBefore(key, g) ==
    \A t \in Instants : (g - Duration < t /\ t < g) => seen[key][t] = NoneSeen

\* C4: when a full window has passed with no request of a key, the next
\* requests of the key, as many as the limiter has points, are all admitted,
\* whatever the key did before.
C4_IdleWindowRestores ==
    [][ \A i \in Slots :
            Consumes(i) =>
                LET key == slots[i].req.ip
                IN  \A g \in Instants :
                        ( /\ g <= now
                          /\ IdleBefore(key, g)
                          /\ SeenAt(key, {t \in Instants : g <= t /\ t <= now})
                                < Points )
                        => slots'[i].admitted ]_vars

\* A request is admitted a full window after the key's last request, the key
\* having had a request rejected before.
C4_Witness ==
    \E i \in Slots :
        /\ slots[i].stage = "rate"
        /\ slots[i].admitted
        /\ now >= Duration
        /\ seen[slots[i].req.ip][0].rejected > 0
        /\ IdleBefore(slots[i].req.ip, now)
        /\ SeenAt(slots[i].req.ip, {now}) = 1

\* The requests of a key in the window that its record holds, by the key's
\* own history: 0 when the window has expired or was never opened.
OwnCount(key) ==
    LET rec == limiter[key]
    IN  IF ~Live(rec, now) THEN 0
        ELSE SeenAt(key, {t \in Instants :
                            rec.expiresAt - Duration <= t /\ t < rec.expiresAt})

\* C20: the limiter's state is per address.  A step of a request of one
\* address leaves the record of every other address as it was; whether a
\* request is admitted or answered 429 is decided by the earlier requests of
\* its own address in its window and by the time; and the points an address
\* has left stay between 0 and the limiter's points.
C20_PerKeyLimiter ==
    [][ /\ \A i \in Slots :
            /\ slots'[i] # slots[i] =>
                    \A k \in Keys \ {Moved(i).ip} :
                        limiter'[k] = limiter[k] /\ seen'[k] = seen[k]
            /\ Consumes(i) =>
                    (slots'[i].admitted <=> (OwnCount(slots[i].req.ip) < Points))
        /\ \A k \in Keys :
                /\ limiter'[k].value >= 0
                /\ RemainingPoints(limiter'[k], now') \in 0..Points
                /\ Live(limiter[k], now) =>
                        RemainingPoints(limiter[k], now) + OwnCount(k) >= Points
      ]_vars

\* A request of one address is admitted while the window of the other
\* address is full and has had a request rejected.
C20_Witness ==
    \E i \in Slots :
        /\ slots[i].stage = "rate"
        /\ slots[i].admitted
        /\ slots[i].req.ip = Other
        /\ Live(limiter[Client], now)
        /\ limiter[Client].value > Points
        /\ RemainingPoints(limiter[Client], now) = 0
        /\ RemainingPoints(limiter[Other], now) = Points - 1

(***************************************************************************)
(* Properties of login and the protected route (SpecAuth).                 *)
(***************************************************************************)
IsProtected(req) == req.method = "GET" /\ req.route = "/protected"

\* Slot i's request is answered in this step.
Responds(i) == slots[i].stage # "idle" /\ slots'[i].stage = "idle"

RanHandler(ran) == \E n \in 1..Len(ran) : ran[n] = "handler"

\* C5: the /protected handler runs only for a request whose Authorization
\* header carries a token with a valid signature that has not expired; with
\* no token the answer is 401, with any other token 403, and in both cases
\* the handler does not run and no decoded subject goes into the response.
C5_ProtectedNeedsValidToken ==
    [][ \A i \in Slots :
            (Responds(i) /\ slots[i].stage = "rate" /\ slots[i].admitted
                /\ IsProtected(slots[i].req)) =>
                LET a == slots[i].req.auth
                    verifies == /\ a.words = 2
                                /\ a.token.key = JWT_SECRET
                                /\ now < a.token.exp
                IN  /\ last'.req = slots[i].req
                    /\ a.words < 2 => last'.resp.status = 401
                    /\ (a.words = 2 /\ ~verifies) => last'.resp.status = 403
                    /\ ~verifies => /\ ~RanHandler(last'.ran)
                                    /\ last'.resp.kind = "error"
                    /\ RanHandler(last'.ran) => verifies ]_vars

\* A token signed with another key has been answered 403.
C5_Witness ==
    /\ last.req = GetProtected(Bearer(ForgedToken))
    /\ last.resp.status = 403
    /\ ~RanHandler(last.ran)

AuthSchemaOk(body) ==
    /\ body.username.t = "string" /\ StrLen(body.username.s) \in 3..50
    /\ body.password.t = "string" /\ StrLen(body.password.s) \in 6..100

\* The username is in the credential set and the password matches its hash.
CredentialsMatch(body) ==
    \E k \in 1..Len(authUsers) :
        /\ authUsers[k].username = body.username.s
        /\ BcryptCompare(body.password.s, authUsers[k].password)

\* C7: POST /auth/login answers 200 with a signed token and {id, username}
\* exactly when the body passes the schema, the username is in the credential
\* set and the password matches its stored hash; a body that passes the
\* schema with an unknown username or another password is answered 401 and
\* no token is issued; a body that fails the schema is answered 400.
C7_LoginOutcome ==
    [][ \A i \in Slots :
            (Responds(i) /\ IsLogin(slots[i].req)) =>
                LET b == slots[i].req.body
                    r == last'.resp
                IN  /\ last'.req = slots[i].req
                    /\ IF ~AuthSchemaOk(b)
                       THEN r.status = 400 /\ issued' = issued
                       ELSE IF ~CredentialsMatch(b)
                       THEN r.status = 401 /\ r.kind = "error" /\ issued' = issued
                       ELSE /\ r.status = 200
                            /\ r.kind = "login"
                            /\ r.data.token.key = JWT_SECRET
                            /\ r.data.token.username = b.username.s
                            /\ r.data.user = [id |-> r.data.token.id,
                                              username |-> b.username.s]
                            /\ issued' = issued \cup
                                    {[token |-> r.data.token, at |-> now]} ]_vars

\* A login has been answered 200 with a token.
C7_Witness ==
    /\ IsLogin(last.req)
    /\ last.resp.status = 200
    /\ last.resp.kind = "login"
    /\ \E x \in issued : x.token = last.resp.data.token

C19_ProtectedEchoesSubject ==
    [][ \A i \in Slots :
            (Responds(i) /\ IsProtected(slots[i].req)) =>
                \A x \in issued :
                    ( /\ slots[i].req.auth = Bearer(x.token)
                      /\ x.token.username = "admin"
                      /\ now < x.at + ExpiresIn ) =>
                        /\ last'.resp.status = 200
                        /\ last'.resp.data.message = "admin"
                        /\ last'.resp.data.user = [id |-> 1, username |-> "admin"]
      ]_vars

(***************************************************************************)
(* Properties of the pipeline (Spec).                                      *)
(***************************************************************************)
\* C9: a request whose body is over the size limit or malformed is answered
\* by the body-parsing stage with 400 and an error envelope, and no route
\* handler runs for it.
C9_BadBodyAnswered400 ==
    [][ \A i \in Slots :
            (Responds(i) /\ slots[i].stage = "body"
                /\ slots[i].req.raw \in {"malformed", "oversize"}) =>
                /\ last'.req = slots[i].req
                /\ last'.resp.status = 400
                /\ last'.resp.kind = "error"
                /\ ~RanHandler(last'.ran)
                /\ users' = users ]_vars

\* The stage of the pipeline that a middleware or handler belongs to.
StageOf(name) ==
    CASE name \in {"helmet", "cors"} -> "security headers"
      [] name = "compression" -> "compression"
      [] name = "morgan" -> "logging"
      [] name \in {"json", "urlencoded"} -> "body parsing"
      [] name = "rateLimit" -> "rate limiting"
      [] name = "authenticateToken" -> "authentication"
      [] name \in {"handler", "notFound"} -> "route dispatch"
      [] name = "errorHandler" -> "error normalization"

\* The order of the stages as C11 lists them, and as app.use registers them.
ListedOrder ==
    << "logging", "security headers", "compression", "body parsing",
       "rate limiting", "authentication", "route dispatch", "error normalization" >>

RegisteredOrder ==
    << "security headers", "compression", "logging", "body parsing",
       "rate limiting", "authentication", "route dispatch", "error normalization" >>

Position(order, stage) == CHOOSE n \in 1..Len(order) : order[n] = stage

\* No stage ran before a stage that the order puts earlier.
InOrder(ran, order) ==
    \A m, n \in 1..Len(ran) :
        m < n => Position(order, StageOf(ran[m])) <= Position(order, StageOf(ran[n]))

\* The stage that sent the response is the last that ran; when a stage
\* failed, the one stage after it is error normalization.
StopsAtResponse(x) ==
    LET ran == x.ran
        n == Len(ran)
    IN  /\ x.resp.status = 429 => ran[n] = "rateLimit"
        /\ x.req.raw \in {"malformed", "oversize"} =>
                /\ ran[n] = "errorHandler"
                /\ ran[n - 1] = "json"
        /\ x.resp.status \in {401, 403} => ran[n] = "authenticateToken"
        /\ \A k \in 1..n :
                ran[k] = "errorHandler" =>
                    k = n /\ x.req.raw \in {"malformed", "oversize"}
        /\ \A k \in 1..n :
                ran[k] \in {"handler", "notFound"} => k = n

FailureStatuses == {400, 401, 403, 404, 429, 500}

\* The requests that can only end in a failure response: a body the parser
\* fails on, a create with a payload against the schema, no route, no token.
OnlyFails(req) ==
    \/ req.raw \in {"malformed", "oversize"}
    \/ IsCreate(req) /\ SchemaViolated(req.body)
    \/ req.route = "/missing"
    \/ IsProtected(req) /\ ~HasToken(req.auth)

\* The response to a request that arrives now and is served with no other
\* request and no time in between.
ServedAlone(req) ==
    IF req.raw \in {"malformed", "oversize"}
    THEN ErrorResp(500, "Internal server error")
    ELSE IF ~Resolves(Incrby(limiter, req.ip, now)[req.ip])
    THEN ErrorResp(429, "Rate limit exceeded")
    ELSE IF ~IsLogin(req) THEN Route(req, users, now).resp
    ELSE IF LoginStart(req.body) # NoResp THEN LoginStart(req.body)
    ELSE LoginFinish(req.body, now)

\* The requests whose responses are compared before and after a failure.
Probes ==
    { Req("GET", "/users", NoParam, "none", NoBody, NoHeader, Client),
      Req("GET", "/users/:id", Digits(2), "none", NoBody, NoHeader, Client),
      Req("POST", "/users", NoParam, "json", Carol, NoHeader, Client),
      Admin(HashPreimage) }

StatusOfError(x) ==
    CASE x.req.raw \in {"malformed", "oversize"} -> 400
      [] x.resp.error = "Validation failed" -> 400
      [] x.resp.error = "Rate limit exceeded" -> 429
      [] x.resp.error = "Access token required" -> 401
      [] x.resp.error = "Invalid credentials" -> 401
      [] x.resp.error = "Invalid token" -> 403
      [] x.resp.error \in {"User not found", "Route not found"} -> 404
      [] OTHER -> 500

\* C13: every error raised by body parsing, rate limiting, authentication or
\* a route handler is answered with an envelope that has an error string (and
\* optional details) and the status of the error's kind: 400 for a payload or
\* validation error, 429 for the limiter, 401 or 403 for authentication, 404
\* for not found; only an error of no known kind is answered 500.
C13_ErrorEnvelopeStatus ==
    (last.req # NoReq /\ last.resp.status \in FailureStatuses) =>
        /\ last.resp.kind = "error"
        /\ last.resp.error # ""
        /\ last.resp.data = NoData
        /\ last.resp.status = StatusOfError(last)

BadBody(req) == req.raw \in {"malformed", "oversize"}

Ran(ran, name) == \E n \in 1..Len(ran) : ran[n] = name

\* C28: a request that the body-parsing stage rejects never reaches the rate
\* limiter and consumes no unit: the limiter's records are the same after it
\* as before, however many such requests a client has sent, and a client
\* whose points are used up is still answered with the error of the body
\* parser, by the error handler, and not with 429.
C28_BadBodySkipsLimiter ==
    /\ [](\A i \in Slots :
            BadBody(slots[i].req) =>
                slots[i].stage = "body" /\ ~Ran(slots[i].ran, "rateLimit"))
    /\ [][ \A i \in Slots :
                (Responds(i) /\ BadBody(slots[i].req)) =>
                    /\ limiter' = limiter
                    /\ seen' = seen
                    /\ last'.req = slots[i].req
                    /\ last'.resp.status # 429
                    /\ last'.resp.kind = "error"
                    /\ Ran(last'.ran, "json")
                    /\ Ran(last'.ran, "errorHandler")
                    /\ ~Ran(last'.ran, "rateLimit")
          ]_vars

\* A client has used up its points in the live window, every request that
\* consumed one has been answered, and a malformed body it sent after that
\* was answered by the error handler; its record still counts the points
\* and no more.
C28_Witness ==
    /\ \A i \in Slots : slots[i].stage = "idle"
    /\ Live(limiter[Client], now)
    /\ limiter[Client].value = Points
    /\ BadBody(last.req)
    /\ last.req.ip = Client
    /\ last.resp.status = 500
    /\ ~Ran(last.ran, "rateLimit")

C17_SerialHandlers ==
    [][ \A i \in Slots :
            (Responds(i) /\ ~IsLogin(slots[i].req)) =>
                LET out == Route(slots[i].req, users, now)
                IN  /\ users' = out.users
                    /\ last'.resp = out.resp
                    /\ (IsCreate(slots[i].req) /\ last'.resp.status = 201) =>
                            /\ Len(users') = Len(users) + 1
                            /\ \A k \in 1..Len(users) : users'[k] = users[k]
                            /\ \A n \in (slots[i].since + 1)..Len(created) :
                                    created[n] # last'.resp.data.id ]_vars

(***************************************************************************)
(* Properties of the shutdown (SpecShutdown).                              *)
(***************************************************************************)
\* After the signal no connection is accepted: no connection is added to
\* those kept alive, and a request starts only on one of them.
NoNewConnections ==
    [][ server.phase # "listening" =>
            /\ server'.keep \subseteq server.keep
            /\ \A i \in Slots :
                    (slots[i].stage = "idle" /\ slots'[i].stage # "idle") =>
                        i \in server.keep ]_vars

\* A request in flight after the signal is answered, and the process does not
\* exit before.
InFlightAnswered ==
    /\ [](server.phase = "exited" => \A i \in Slots : slots[i].stage = "idle")
    /\ \A i \in Slots :
            (server.phase = "closing" /\ slots[i].stage # "idle")
                ~> (slots[i].stage = "idle")

\* C14: after a termination signal the server accepts no new connection,
\* every request in flight at the signal still gets its response, and the
\* process then eventually exits with code 0.
C14_GracefulShutdown ==
    /\ NoNewConnections
    /\ InFlightAnswered
    /\ (server.phase = "closing") ~> (server.phase = "exited" /\ server.code = 0)

(***************************************************************************)
(* Properties of the Go service's shutdown (SpecGo).                       *)
(***************************************************************************)
\* After the signal the server takes no new request.
GoNoNewRequests ==
    [][srv.phase \in {"shutdown", "exited"} => srv'.inflight <= srv.inflight]_vars

GoExitedAfterSignal == srv.phase = "exited" /\ srv.sig # ""

GoNormalExit == srv.code = 0 /\ srv.log = "Server exited"
GoForcedExit == srv.code = 1 /\ srv.log = "Server forced to shutdown"

\* C22 as stated: after SIGINT or SIGTERM the Go server takes no new request
\* and waits at most 5 seconds for the outstanding ones: if they all finish
\* within the bound the process logs "Server exited" and returns normally,
\* otherwise the shutdown is forced and the process ends through the fatal
\* path; in both cases the process eventually exits.
C22_GoShutdownWithinBound ==
    /\ GoNoNewRequests
    /\ [](GoExitedAfterSignal =>
            IF srv.idleSince # -1 /\ srv.idleSince < ShutdownTimeout
            THEN GoNormalExit
            ELSE GoForcedExit)
    /\ (srv.phase = "shutdown") ~> (srv.phase = "exited")

\* C22 as amended: the process returns normally when Shutdown finds no
\* request outstanding at one of its polls within the 5 seconds, which is
\* certain when the requests all finish a second or more before the bound; it
\* ends through the fatal path only when the 5 seconds are over, with a
\* request outstanding or the last one finished within the final second; in
\* both cases it takes no new request and eventually exits.
C22_GoShutdownAtPoll ==
    /\ GoNoNewRequests
    /\ [](GoExitedAfterSignal =>
            \/ /\ GoNormalExit
               /\ srv.inflight = 0
               /\ srv.elapsed <= ShutdownTimeout
            \/ /\ GoForcedExit
               /\ srv.elapsed = ShutdownTimeout
               /\ srv.idleSince = -1 \/ srv.idleSince >= ShutdownTimeout - 1)
    /\ [](GoExitedAfterSignal /\ srv.inflight > 0 => GoForcedExit)
    /\ (srv.phase = "shutdown") ~> (srv.phase = "exited")

\* The process has returned normally after SIGINT, its last request having
\* finished some seconds into the shutdown.
C22_Witness ==
    /\ GoExitedAfterSignal
    /\ srv.sig = "SIGINT"
    /\ GoNormalExit
    /\ srv.idleSince >= 2

(***************************************************************************)
(* Properties of the users routes beside authentication (SpecGate).        *)
(***************************************************************************)
IsUsersRoute(req) == req.route \in {"/users", "/users/:id"}

\* What the handler of a users route makes of the collection, by the
\* request's method, path parameter and body alone.
Unauthenticated(req, us) ==
    CASE IsList(req) -> GetUsers(us)
      [] IsFetch(req) -> GetUser(us, req.param)
      [] IsCreate(req) -> PostUsers(us, req.body)
      [] IsUpdate(req) -> PutUser(us, req.param, req.body)
      [] IsDelete(req) -> DeleteUser(us, req.param)

\* C27: authentication gates only /protected.  A request to a users route
\* that the limiter admits is never answered 401 or 403, and its response
\* and the collection it leaves are those of its handler on the collection,
\* whatever its Authorization header and whatever tokens logins have given;
\* logins and requests for /protected leave the collection as it is.
C27_OnlyProtectedIsGated ==
    [][ \A i \in Slots :
            LET r == slots[i].req
            IN  Responds(i) =>
                    IF IsUsersRoute(r)
                    THEN /\ last'.resp.status \notin {401, 403}
                         /\ last'.resp = Unauthenticated(r, users).resp
                         /\ users' = Unauthenticated(r, users).users
                    ELSE users' = users
      ]_vars

\* Nobody has logged in, and requests have created, updated and deleted
\* records: the last one, sent with no token, deleted the created record.
C27_Witness ==
    /\ issued = {}
    /\ IsDelete(last.req)
    /\ last.req.auth = NoHeader
    /\ last.resp.status = 204
    /\ created = <<3>>
    /\ users = << SeedUsers[1],
                  [id |-> 2, name |-> "Bob", email |-> "carol@example.com",
                   age |-> Num(30)] >>

(***************************************************************************)
(* Properties of validation and lookup (SpecValidate).                     *)
(***************************************************************************)
\* C30: validation is decided before lookup.  A PUT /users/:id whose body
\* fails the schema is answered 400 whether or not the id is in the
\* collection, so that 404 is the answer only to a body that passes it; a
\* POST /auth/login whose username is shorter than 3 or whose password is
\* shorter than 6 characters is answered 400 in the handler's first step,
\* before the lookup and the comparison, whether or not the username is in
\* the credential set.
C30_ValidationBeforeLookup ==
    [][ \A i \in Slots :
            Responds(i) =>
                LET r == slots[i].req
                    b == r.body
                IN  /\ (IsUpdate(r) /\ ~SchemaValid(b)) =>
                            /\ last'.resp.status = 400
                            /\ last'.resp.error = "Validation failed"
                            /\ users' = users
                    /\ (IsUpdate(r) /\ last'.resp.status = 404) =>
                            /\ SchemaValid(b)
                            /\ ~HasId(users, parseInt(r.param))
                    /\ (IsLogin(r) /\ b.username.t = "string" /\ b.password.t = "string"
                            /\ (StrLen(b.username.s) < 3 \/ StrLen(b.password.s) < 6)) =>
                            /\ last'.resp.status = 400
                            /\ last'.resp.error = "Validation failed"
                            /\ slots[i].stage = "rate"
                            /\ ~Ran(slots[i].ran, "handler")
      ]_vars

\* A PUT whose body fails the schema, on an id that is not in the collection,
\* has been answered 400 and not 404.
C30_Witness ==
    /\ IsUpdate(last.req)
    /\ ~SchemaValid(last.req.body)
    /\ ~HasId(users, parseInt(last.req.param))
    /\ last.resp.status = 400
    /\ last.resp.details # <<>>

====
